---- MODULE Spec2Model ----
(***************************************************************************)
(* Fixed-size pool allocator of Src/Memory/Memory_SF2000.c                 *)
(* (sf2000_memory_pools_init, sf2000_memory_pools_cleanup,                 *)
(* sf2000_malloc_fast, sf2000_free_fast) over a model of the C library's   *)
(* general allocator (malloc / free), and the copy and fill routines of    *)
(* the same file (sf2000_memcpy_aligned, sf2000_memset_aligned,            *)
(* sf2000_memcpy_burst) over a byte memory.                                *)
(* Addresses are the UInt32 values the code casts pointers to.  Every     *)
(* address of the model lies below 2^18 (HeapBase plus the pools and a few *)
(* blocks), so no UInt32 sum, product or difference of the code wraps and  *)
(* the arithmetic is written without the reduction modulo 2^32.            *)
(***************************************************************************)
EXTENDS Integers, Sequences, FiniteSets, TLC

\* ---------------------------------------------------------------- bounds
\* The caller keeps at most MaxHeld allocations outstanding.
MaxHeld == 3
\* The caller passes at most MaxMisuse pointers to Free that it does not hold.
MaxMisuse == 2
\* Outstanding allocations of the faulty caller.
MaxHeldMisuse == 2
\* Outstanding allocations in the runs with the two largest classes.
MaxHeldLarge == 5

\* Frees of a pointer the caller does not hold, and outstanding allocations,
\* in the runs that follow a single faulty Free.
MaxProbes == 1
MaxHeldProbe == 2

\* Outstanding allocations in the runs over the whole life of the pool set.
MaxHeldLife == 2

\* The largest byte count of a copy (two bursts and a remainder), of a fill.
MaxLen == 70
MaxFill == 12

\* ------------------------------------------------------------- constants
SF2000_CACHE_LINE_SIZE == 32
SF2000_POOL_COUNT == 8
NULL == 0

pool_sizes == <<32, 64, 128, 256, 512, 1024, 2048, 4096>>
blocks_per_pool == <<256, 128, 64, 32, 16, 8, 4, 2>>

PoolIds == 0 .. (SF2000_POOL_COUNT - 1)

\* ------------------------------------------------- the general allocator
\* Where the C library's heap begins.  malloc may leave a gap in front of a
\* region; Placements gives, per pool, the gap in front of the regions
\* Initialize asks for (all 0: cache-line aligned results occur; gap i for
\* pool i: one reservation needs no padding and another the full 31 bytes).
HeapBase == 2^16
Placements == {[i \in PoolIds |-> 0], [i \in PoolIds |-> i]}

Max(a, b) == IF a >= b THEN a ELSE b
SetMin(S) == CHOOSE x \in S : \A y \in S : x <= y
RoundUp8(a) == ((a + 7) \div 8) * 8

\* A live region of the general heap: [addr, addr + size).
RegionEnd(r) == r.addr + Max(r.size, 1)
Overlaps(a, n, r) == a < RegionEnd(r) /\ r.addr < a + Max(n, 1)

\* malloc(n) when it succeeds: the lowest address after the heap base or after
\* a live region, plus the gap, whose n bytes overlap no live region.
MallocAddr(h, n, gap) ==
    LET cands == {HeapBase + gap} \cup {RoundUp8(RegionEnd(r)) + gap : r \in h}
        fits == {a \in cands : \A r \in h : ~Overlaps(a, n, r)}
    IN SetMin(fits)

\* ------------------------------------------------------------- the state
VARIABLES
    pools,    \* sf2000_memory_pools[]: pool_memory, block_size, block_count,
              \* free_count, free_list (the pointer), list (the array it points to)
    heap,     \* the general allocator's live regions
    raw,      \* per pool, the address malloc returned for its backing storage
    held,     \* pointers sf2000_malloc_fast returned that were not yet freed
    misuse,   \* number of sf2000_free_fast calls on a pointer the caller did not hold
    phase,    \* "uninit" before sf2000_memory_pools_init, "ready" after it,
              \* "cleaned" after sf2000_memory_pools_cleanup,
              \* "crashed" once undefined behaviour stopped the program,
              \* "hung" in a loop that does not end
    io        \* one call of a copy or fill routine: its arguments, the bytes of
              \* memory, and the transfers it made; or the last call of the
              \* loader: its file, results, freads and library calls

vars == <<pools, heap, raw, held, misuse, phase, io>>

\* No copy or fill routine is under study.
NoCall == [op |-> "none"]

ZeroPool ==
    [pool_memory |-> NULL, block_size |-> 0, block_count |-> 0,
     free_count |-> 0, free_list |-> NULL, list |-> <<>>]

Init ==
    /\ pools = [i \in PoolIds |-> ZeroPool]
    /\ heap = {}
    /\ raw = [i \in PoolIds |-> NULL]
    /\ held = {}
    /\ misuse = 0
    /\ phase = "uninit"
    /\ io = NoCall

\* ------------------------------------------------ sf2000_memory_pools_init
\* (addr + SF2000_CACHE_LINE_SIZE - 1) & ~(SF2000_CACHE_LINE_SIZE - 1) on UInt32.
AlignUpOff(addr) ==
    LET a == addr + SF2000_CACHE_LINE_SIZE
    IN a - (a % SF2000_CACHE_LINE_SIZE)

AlignUp(addr) ==
    LET a == addr + SF2000_CACHE_LINE_SIZE - 1
    IN a - (a % SF2000_CACHE_LINE_SIZE)

\* total_size = block_size * block_count, and the bytes asked of malloc.
TotalSize(p) == p.block_size * p.block_count
ReserveSize(p) == TotalSize(p) + SF2000_CACHE_LINE_SIZE - 1

\* The free list filled in descending order.
FreeListDescending(n) == [j \in 0 .. (n - 1) |-> n - 1 - j]

\* for (j = 0; j < block_count; j++) free_list[j] = j;
FreeListInit(n) == [j \in 0 .. (n - 1) |-> j]

\* One iteration of the loop for pool i on pools P and heap H: the reservation
\* fails when i \in fails; place[i] is the gap malloc leaves; R collects the
\* addresses malloc returned.
InitPool(i, P, H, R, fails, place) ==
    LET sized == [P[i] EXCEPT !.block_size = pool_sizes[i + 1],
                              !.block_count = blocks_per_pool[i + 1],
                              !.free_count = blocks_per_pool[i + 1]]
    IN IF i \in fails
       THEN [pools |-> [P EXCEPT ![i] = [sized EXCEPT !.pool_memory = NULL]],
             heap |-> H, raw |-> [R EXCEPT ![i] = NULL]]
       ELSE LET m == MallocAddr(H, ReserveSize(sized), place[i])
                H1 == H \cup {[addr |-> m, size |-> ReserveSize(sized)]}
                fl == MallocAddr(H1, sized.block_count * 4, place[i])
                H2 == H1 \cup {[addr |-> fl, size |-> sized.block_count * 4]}
            IN [pools |-> [P EXCEPT ![i] =
                              [sized EXCEPT !.pool_memory = AlignUp(m),
                                            !.free_list = fl,
                                            !.list = FreeListInit(sized.block_count)]],
                heap |-> H2, raw |-> [R EXCEPT ![i] = m]]

RECURSIVE InitLoop(_, _, _, _, _, _)
InitLoop(i, P, H, R, fails, place) ==
    IF i >= SF2000_POOL_COUNT
    THEN [pools |-> P, heap |-> H, raw |-> R]
    ELSE LET s == InitPool(i, P, H, R, fails, place)
         IN InitLoop(i + 1, s.pools, s.heap, s.raw, fails, place)

\* sf2000_memory_init calls it once, before any use of the pools.
PoolsInit(fails, place) ==
    /\ phase = "uninit"
    /\ LET s == InitLoop(0, pools, heap, raw, fails, place)
       IN /\ pools' = s.pools
          /\ heap' = s.heap
          /\ raw' = s.raw
    /\ phase' = "ready"
    /\ UNCHANGED <<held, misuse, io>>

\* ------------------------------------------------------ sf2000_malloc_fast
\* The pool test with < for <=.
FittingStrict(size) ==
    {i \in PoolIds : size < pools[i].block_size /\ pools[i].free_count > 0}

\* The pool test without free_count > 0.
FittingAnyCount(size) == {i \in PoolIds : size <= pools[i].block_size}

\* The pool test with free_count >= 0.
FittingAtZero(size) ==
    {i \in PoolIds : size <= pools[i].block_size /\ pools[i].free_count >= 0}

\* The pools the scan's condition accepts for a request of `size` bytes.
Fitting(size) ==
    {i \in PoolIds : size <= pools[i].block_size /\ pools[i].free_count > 0}

\* A scan that tries only the smallest pool whose blocks are large enough.
SelectPoolSmallest(size) ==
    LET enough == {i \in PoolIds : size <= pools[i].block_size}
    IN IF enough = {} THEN -1
       ELSE IF pools[SetMin(enough)].free_count > 0 THEN SetMin(enough) ELSE -1

\* A scan that keeps going and ends on the last accepted pool.
SelectPoolLast(size) ==
    IF Fitting(size) = {} THEN -1
    ELSE CHOOSE i \in Fitting(size) : \A j \in Fitting(size) : j <= i

\* The pool the for loop stops at: the first accepted one, -1 when it runs out.
SelectPool(size) == IF Fitting(size) = {} THEN -1 ELSE SetMin(Fitting(size))

\* pool->free_list[k]; through a null free_list the read yields `junk`.
ReadList(p, k, junk) == IF p.free_list # NULL /\ k \in DOMAIN p.list THEN p.list[k] ELSE junk

\* The free list read as a queue, from its front.
PopFront(p) == 0

\* The slot of the free list the allocation takes its block index from.
PopSlot(p) == p.free_count - 1

\* The index scaled by the wrong field.
BlockAddrByCount(p, block_index) == p.pool_memory + (block_index * p.block_count)

\* (UInt8*)pool->pool_memory + (block_index * pool->block_size)
BlockAddr(p, block_index) == p.pool_memory + (block_index * p.block_size)

\* The block a match on pool p hands out: block_index = free_list[free_count]
\* after free_count--, and its address.
PoolBlock(p, junk) == BlockAddr(p, ReadList(p, PopSlot(p), junk))

\* What the fallback asks of the general allocator.
FallbackSize(size) == size

Callable == phase \in {"uninit", "ready", "cleaned"}

\* The outcome of a read through a null free_list in which the access traps
\* and the program stops; any other junk is the word the read yields.
Trap == -1

\* The matched pool has no free list: line 201 reads through a null pointer.
NullRead(size) ==
    LET k == SelectPool(size)
    IN k # -1 /\ pools[k].free_list = NULL

Traps(size, junk) == NullRead(size) /\ junk = Trap

\* The pointer the call returns.  junk: what a read through a null free_list
\* yields; gap, ok: where the general allocator places the region, and
\* whether it succeeds (NULL when it does not).
MallocResult(size, gap, ok, junk) ==
    LET k == SelectPool(size)
    IN IF k # -1 THEN PoolBlock(pools[k], junk)
       ELSE IF ok THEN MallocAddr(heap, FallbackSize(size), gap) ELSE NULL

MallocFast(size, gap, ok, junk) ==
    /\ Callable
    /\ LET k == SelectPool(size)
           ret == MallocResult(size, gap, ok, junk)
       IN /\ IF k # -1
             THEN /\ pools' = [pools EXCEPT ![k].free_count = pools[k].free_count - 1]
                  /\ UNCHANGED heap
             ELSE /\ UNCHANGED pools
                  /\ heap' = IF ok THEN heap \cup {[addr |-> ret, size |-> FallbackSize(size)]}
                                   ELSE heap
          /\ held' = IF ret # NULL /\ ~Traps(size, junk) THEN held \cup {ret} ELSE held
    /\ phase' = IF Traps(size, junk) THEN "crashed" ELSE phase
    /\ UNCHANGED <<raw, misuse, io>>

\* -------------------------------------------------------- sf2000_free_fast
\* ptr >= pool->pool_memory && ptr < pool_memory + block_size * block_count
InPool(ptr, p) == ptr >= p.pool_memory /\ ptr < p.pool_memory + TotalSize(p)

\* The loop's range test passing for no pool.
OwnerPoolNone(ptr) == -1

\* The pool the for loop stops at: the first whose span holds ptr, else -1.
OwnerPool(ptr) ==
    LET owners == {i \in PoolIds : InPool(ptr, pools[i])}
    IN IF owners = {} THEN -1 ELSE SetMin(owners)

\* The offset divided by the wrong field.
BlockIndexByCount(ptr, p) == (ptr - p.pool_memory) \div p.block_count

\* The index taken to be that of the first block.
BlockIndexZero(ptr, p) == 0

\* The quotient rounded up instead of down.
BlockIndexCeil(ptr, p) == ((ptr - p.pool_memory) + p.block_size - 1) \div p.block_size

\* offset / block_size, with offset = ptr - pool_memory as UInt32.
BlockIndex(ptr, p) == (ptr - p.pool_memory) \div p.block_size

\* Push without the capacity test.
PushAlways(p) == TRUE

\* The capacity test off by one.
PushAllowedAtFull(p) == p.free_count <= p.block_count

\* if (pool->free_count < pool->block_count)
PushAllowed(p) == p.free_count < p.block_count

\* Push that forgets free_count++.
PushNoCount(p, block_index) ==
    [p EXCEPT !.list = [@ EXCEPT ![p.free_count] = block_index]]

\* free_list[free_count] = block_index; free_count++
Push(p, block_index) ==
    [p EXCEPT !.list = [@ EXCEPT ![p.free_count] = block_index],
              !.free_count = p.free_count + 1]

\* The addresses free() of the general allocator may be given.
HeapAddrs == {r.addr : r \in heap}

\* The null test without effect.
IsNullNever(ptr) == FALSE

\* if (!ptr) return;
IsNull(ptr) == ptr = NULL

\* The arguments of the calls to free() that one call of sf2000_free_fast
\* makes, in order: none on the early return and on a pool match (the return
\* inside the loop), ptr when the loop ends without a match.
FreeCalls(ptr) ==
    IF IsNull(ptr) THEN <<>>
    ELSE IF OwnerPool(ptr) # -1 THEN <<>> ELSE <<ptr>>

\* free(p) of the general allocator.  free(NULL) does nothing; p must else be
\* a live result of malloc.  crash: free() of any other address is undefined,
\* as is the push through a null free_list; the access is ignored or the
\* program stops.
GeneralFree(p, crash) ==
    IF p = NULL
    THEN UNCHANGED <<heap, phase>>
    ELSE IF p \in HeapAddrs
         THEN /\ heap' = {r \in heap : r.addr # p}
              /\ UNCHANGED phase
         ELSE /\ phase' = IF crash THEN "crashed" ELSE phase
              /\ UNCHANGED heap

\* The push of line 229 goes through a null free_list.
NullWrite(ptr) ==
    /\ ~IsNull(ptr)
    /\ LET k == OwnerPool(ptr)
       IN k # -1 /\ PushAllowed(pools[k]) /\ pools[k].free_list = NULL

FreeFast(ptr, crash) ==
    /\ Callable
    /\ misuse' = IF ptr \in held \/ ptr = NULL THEN misuse ELSE misuse + 1
    /\ held' = held \ {ptr}
    /\ IF IsNull(ptr)
       THEN UNCHANGED pools
       ELSE LET k == OwnerPool(ptr)
            IN IF k # -1
               THEN pools' = IF PushAllowed(pools[k])
                             THEN [pools EXCEPT ![k] = Push(pools[k], BlockIndex(ptr, pools[k]))]
                             ELSE pools
               ELSE UNCHANGED pools
    /\ IF FreeCalls(ptr) = <<>>
       THEN /\ UNCHANGED heap
            /\ phase' = IF NullWrite(ptr) /\ crash THEN "crashed" ELSE phase
       ELSE GeneralFree(FreeCalls(ptr)[1], crash)
    /\ UNCHANGED <<raw, io>>

\* ---------------------------------------------- sf2000_memory_pools_cleanup
\* One iteration of the loop for pool i on pools P and heap H.  free() is
\* given pool_memory, the aligned base: when that is not the address malloc
\* returned the call is undefined, and with crash the program stops there.
CleanupPool(i, P, H, crash) ==
    LET p == P[i]
        hasMem == p.pool_memory # NULL
        valid == p.pool_memory \in {r.addr : r \in H}
        stop == hasMem /\ ~valid /\ crash
        H1 == IF hasMem /\ valid THEN {r \in H : r.addr # p.pool_memory} ELSE H
        p1 == IF hasMem THEN [p EXCEPT !.pool_memory = NULL] ELSE p
        hasList == p1.free_list # NULL
        H2 == IF hasList THEN {r \in H1 : r.addr # p1.free_list} ELSE H1
        p2 == IF hasList THEN [p1 EXCEPT !.free_list = NULL, !.list = <<>>] ELSE p1
    IN IF stop
       THEN [pools |-> P, heap |-> H, stop |-> TRUE]
       ELSE [pools |-> [P EXCEPT ![i] = p2], heap |-> H2, stop |-> FALSE]

RECURSIVE CleanupLoop(_, _, _, _)
CleanupLoop(i, P, H, crash) ==
    IF i >= SF2000_POOL_COUNT
    THEN [pools |-> P, heap |-> H, stop |-> FALSE]
    ELSE LET s == CleanupPool(i, P, H, crash)
         IN IF s.stop THEN s ELSE CleanupLoop(i + 1, s.pools, s.heap, crash)

\* sf2000_memory_cleanup calls it.
Cleanup(crash) ==
    /\ Callable
    /\ LET s == CleanupLoop(0, pools, heap, crash)
       IN /\ pools' = s.pools
          /\ heap' = s.heap
          /\ phase' = IF s.stop THEN "crashed" ELSE "cleaned"
    /\ UNCHANGED <<raw, held, misuse, io>>

\* ------------------------------------------------------------ the callers
\* Correct use: Initialize once, then Allocate and Free of held pointers.
\* 33 and 64 are the ends of the 64-byte class, 4096 the largest class,
\* 4097 the first size no pool covers.
AllocSizes == {33, 64, 4096, 4097}

Next ==
    \/ \E place \in Placements : PoolsInit({}, place)
    \/ /\ phase = "ready"
       /\ Cardinality(held) < MaxHeld
       /\ \E size \in AllocSizes, ok \in BOOLEAN : MallocFast(size, 0, ok, 0)
    \/ /\ phase = "ready"
       /\ \E ptr \in held \cup {NULL} : FreeFast(ptr, FALSE)

Spec == Init /\ [][Next]_vars

\* Correct use with requests of the two largest classes only: 2000 bytes
\* (2048-byte pool, 4 blocks, then the 4096-byte pool, 2 blocks) and 4097.
LargeSizes == {2000, 4097}

NextLarge ==
    \/ \E place \in Placements : PoolsInit({}, place)
    \/ /\ phase = "ready"
       /\ Cardinality(held) < MaxHeldLarge
       /\ \E size \in LargeSizes, ok \in BOOLEAN : MallocFast(size, 0, ok, 0)
    \/ /\ phase = "ready"
       /\ \E ptr \in held \cup {NULL} : FreeFast(ptr, FALSE)

SpecLarge == Init /\ [][NextLarge]_vars

\* Allocation without release until the smallest class is used up and one
\* more request has been made; the general allocator's placement varies more.
ExhaustPlacements ==
    Placements \cup {[i \in PoolIds |-> 1], [i \in PoolIds |-> (8 * i) % SF2000_CACHE_LINE_SIZE]}
ExhaustSizes == {1, 20, 32}
ExhaustCalls == blocks_per_pool[1] + 1

NextExhaust ==
    \/ \E place \in ExhaustPlacements : PoolsInit({}, place)
    \/ /\ phase = "ready"
       /\ Cardinality(held) < ExhaustCalls
       /\ \E size \in ExhaustSizes : MallocFast(size, 0, TRUE, 0)

SpecExhaust == Init /\ [][NextExhaust]_vars

\* The blocks a pool handed out earlier and the caller no longer holds: the
\* entries above free_count are the indices the latest pops took.
StaleOf(i) ==
    IF pools[i].free_list = NULL THEN {}
    ELSE {BlockAddr(pools[i], pools[i].list[k]) :
             k \in {n \in DOMAIN pools[i].list : n >= pools[i].free_count}}

StalePtrs == (UNION {StaleOf(i) : i \in PoolIds}) \ held

\* Pointers the allocator never returned: an address inside a block, the
\* start of a block, the address one past a span, an address below the heap.
ProbePools == {0, 7}

Probes ==
    {HeapBase - 8} \cup
    UNION {{pools[i].pool_memory,
            pools[i].pool_memory + 1,
            pools[i].pool_memory + TotalSize(pools[i])} : i \in ProbePools}

\* Faulty use: besides held pointers the caller frees, up to MaxMisuse times,
\* a pointer it has already freed or one the allocator never returned.
MisuseSizes == {20, 4096}

NextMisuse ==
    \/ \E place \in Placements : PoolsInit({}, place)
    \/ /\ phase = "ready"
       /\ Cardinality(held) < MaxHeldMisuse
       /\ \E size \in MisuseSizes, ok \in BOOLEAN : MallocFast(size, 0, ok, 0)
    \/ /\ phase = "ready"
       /\ \E ptr \in held \cup {NULL} : FreeFast(ptr, FALSE)
    \/ /\ phase = "ready"
       /\ misuse < MaxMisuse
       /\ \E ptr \in (StalePtrs \cup Probes) \ held, crash \in BOOLEAN : FreeFast(ptr, crash)

SpecMisuse == Init /\ [][NextMisuse]_vars

\* Faulty use as in NextMisuse, with its own bounds and with requests no
\* pool covers, so that the caller also holds results of the general allocator.
ProbeSizes == {20, 4097}

NextProbe ==
    \/ \E place \in Placements : PoolsInit({}, place)
    \/ /\ phase = "ready"
       /\ Cardinality(held) < MaxHeldProbe
       /\ \E size \in ProbeSizes, ok \in BOOLEAN : MallocFast(size, 0, ok, 0)
    \/ /\ phase = "ready"
       /\ \E ptr \in held \cup {NULL} : FreeFast(ptr, FALSE)
    \/ /\ phase = "ready"
       /\ misuse < MaxProbes
       /\ \E ptr \in (StalePtrs \cup Probes) \ held, crash \in BOOLEAN : FreeFast(ptr, crash)

SpecProbe == Init /\ [][NextProbe]_vars

\* Repeated Free: besides held pointers the caller frees, up to MaxMisuse
\* times, a pointer Allocate returned earlier that it has freed since.
NextRefree ==
    \/ \E place \in Placements : PoolsInit({}, place)
    \/ /\ phase = "ready"
       /\ Cardinality(held) < MaxHeldMisuse
       /\ \E size \in MisuseSizes, ok \in BOOLEAN : MallocFast(size, 0, ok, 0)
    \/ /\ phase = "ready"
       /\ \E ptr \in held \cup {NULL} : FreeFast(ptr, FALSE)
    \/ /\ phase = "ready"
       /\ misuse < MaxMisuse
       /\ \E ptr \in StalePtrs : FreeFast(ptr, FALSE)

SpecRefree == Init /\ [][NextRefree]_vars

\* The whole life of the pool set: Initialize in which the reservations of
\* the pools in `fails` fail, Allocate and Free of held pointers, Cleanup, and
\* Allocate and Free after Cleanup.  A read through a null free_list yields
\* one of JunkValues or traps.  The caller stops asking once a pool counts
\* MaxHeldLife blocks as handed out.
\* Taken(i): the blocks pool i counts as handed out; through a null free list
\* a block is counted although the caller may have got no pointer it keeps.
Taken(i) == pools[i].block_count - pools[i].free_count

FailSets == {{}, {0}, {7}, {0, 7}}
LifeSizes == {20, 4000}
JunkValues == {0, 1}

NextLife ==
    \/ \E fails \in FailSets, place \in Placements : PoolsInit(fails, place)
    \/ /\ phase \in {"ready", "cleaned"}
       /\ Cardinality(held) < MaxHeldLife
       /\ \A i \in PoolIds : Taken(i) < MaxHeldLife
       /\ \E size \in LifeSizes, junk \in JunkValues \cup {Trap} : MallocFast(size, 0, TRUE, junk)
    \/ /\ phase \in {"ready", "cleaned"}
       /\ \E ptr \in held, crash \in BOOLEAN : FreeFast(ptr, crash)
    \/ /\ phase = "ready"
       /\ \E crash \in BOOLEAN : Cleanup(crash)

SpecLife == Init /\ [][NextLife]_vars

\* ------------------------------------------------ the copy and fill routines
\* Memory is a function from the addresses 0 .. MemTop to bytes.  The source
\* buffer starts at SrcBase plus its misalignment, the destination buffer at
\* DstBase plus its own; the buffers do not overlap and MemTop leaves room
\* behind the destination.
SrcBase == 16
DstBase == 4 * ((SrcBase + MaxLen + 3) \div 4) + 16
MemTop == DstBase + MaxLen + 3 + 48
Addrs == 0 .. MemTop

\* The bytes before the call: any two addresses less than 256 apart differ.
InitialMem == [a \in Addrs |-> (37 * a + 11) % 256]

\* A UInt32 as its two 16-bit halves (the integers at hand end below 2^32).
\* *p as a UInt32 on the little-endian MIPS of the device, and its store.
LoadWord(m, a) ==
    [lo |-> m[a] + 256 * m[a + 1], hi |-> m[a + 2] + 256 * m[a + 3]]

StoreWord(m, a, w) ==
    [m EXCEPT ![a] = w.lo % 256, ![a + 1] = w.lo \div 256,
              ![a + 2] = w.hi % 256, ![a + 3] = w.hi \div 256]

\* One transfer: the memory after it and the record of it.
CopyWord(st, d, s) ==
    [mem |-> StoreWord(st.mem, d, LoadWord(st.mem, s)),
     log |-> Append(st.log, [kind |-> "word", dst |-> d, src |-> s])]

CopyByte(st, d, s) ==
    [mem |-> [st.mem EXCEPT ![d] = st.mem[s]],
     log |-> Append(st.log, [kind |-> "byte", dst |-> d, src |-> s])]

\* memcpy of the C library on buffers that do not overlap.
LibMemcpy(st, d, s, n) ==
    [mem |-> [a \in DOMAIN st.mem |->
                 IF d <= a /\ a < d + n THEN st.mem[s + (a - d)] ELSE st.mem[a]],
     log |-> Append(st.log, [kind |-> "memcpy", dst |-> d, src |-> s])]

\* The word count rounded up.
WordCountUp(size) == (size + 3) \div 4

\* word_count = size >> 2
WordCount(size) == size \div 4

\* No remainder.
RemainderNone(size) == 0

\* remainder = size & 3
Remainder(size) == size % 4

\* ((UInt32)p & 3) == 0
Aligned4(p) == p % 4 = 0

\* for (i = 0; i < word_count; i++) *dst32++ = *src32++;
RECURSIVE WordLoop(_, _, _, _, _)
WordLoop(st, dst32, src32, i, word_count) ==
    IF i >= word_count
    THEN [st |-> st, dst32 |-> dst32, src32 |-> src32]
    ELSE WordLoop(CopyWord(st, dst32, src32), dst32 + 4, src32 + 4, i + 1, word_count)

\* for (i = 0; i < remainder; i++) *dst8++ = *src8++;
RECURSIVE ByteLoop(_, _, _, _, _)
ByteLoop(st, dst8, src8, i, remainder) ==
    IF i >= remainder
    THEN st
    ELSE ByteLoop(CopyByte(st, dst8, src8), dst8 + 1, src8 + 1, i + 1, remainder)

\* sf2000_memcpy_aligned(dst, src, size) on the memory and log st.
MemcpyAligned(st, dst, src, size) ==
    IF Aligned4(dst) /\ Aligned4(src)
    THEN LET w == WordLoop(st, dst, src, 0, WordCount(size))
         IN IF Remainder(size) > 0
            THEN ByteLoop(w.st, w.dst32, w.src32, 0, Remainder(size))
            ELSE w.st
    ELSE LibMemcpy(st, dst, src, size)

\* UInt32 arithmetic on the two halves: the promotion of a byte, x << 8,
\* x << k for k a multiple of 8 (bits shifted past bit 31 are lost), x | y.
ToWord(v) == [lo |-> v, hi |-> 0]

Shl8(w) ==
    [lo |-> (w.lo * 256) % 65536, hi |-> (w.hi * 256 + w.lo \div 256) % 65536]

RECURSIVE Shl(_, _)
Shl(w, k) == IF k <= 0 THEN w ELSE Shl(Shl8(w), k - 8)

RECURSIVE BitOr16(_, _)
BitOr16(a, b) ==
    IF a = 0 THEN b
    ELSE IF b = 0 THEN a
    ELSE (IF a % 2 = 1 \/ b % 2 = 1 THEN 1 ELSE 0) + 2 * BitOr16(a \div 2, b \div 2)

WordOr(x, y) == [lo |-> BitOr16(x.lo, y.lo), hi |-> BitOr16(x.hi, y.hi)]

\* The pattern without the replication.
PatternLowByte(value) == ToWord(value)

\* pattern = (value << 24) | (value << 16) | (value << 8) | value, as the
\* compiler of the build (GCC) evaluates the shifts: in 32 bits, wrapping.
Pattern(value) ==
    WordOr(WordOr(WordOr(Shl(ToWord(value), 24), Shl(ToWord(value), 16)),
                  Shl(ToWord(value), 8)),
           ToWord(value))

SetWord(st, d, w) ==
    [mem |-> StoreWord(st.mem, d, w),
     log |-> Append(st.log, [kind |-> "word", dst |-> d])]

SetByte(st, d, value) ==
    [mem |-> [st.mem EXCEPT ![d] = value],
     log |-> Append(st.log, [kind |-> "byte", dst |-> d])]

\* memset of the C library.
LibMemset(st, d, value, n) ==
    [mem |-> [a \in DOMAIN st.mem |-> IF d <= a /\ a < d + n THEN value ELSE st.mem[a]],
     log |-> Append(st.log, [kind |-> "memset", dst |-> d])]

\* for (i = 0; i < word_count; i++) *dst32++ = pattern;
RECURSIVE SetWordLoop(_, _, _, _, _)
SetWordLoop(st, dst32, i, word_count, pattern) ==
    IF i >= word_count
    THEN [st |-> st, dst32 |-> dst32]
    ELSE SetWordLoop(SetWord(st, dst32, pattern), dst32 + 4, i + 1, word_count, pattern)

\* for (i = 0; i < remainder; i++) *dst8++ = value;
RECURSIVE SetByteLoop(_, _, _, _, _)
SetByteLoop(st, dst8, i, remainder, value) ==
    IF i >= remainder
    THEN st
    ELSE SetByteLoop(SetByte(st, dst8, value), dst8 + 1, i + 1, remainder, value)

\* sf2000_memset_aligned(dst, value, size) on the memory and log st.
MemsetAligned(st, dst, value, size) ==
    IF Aligned4(dst)
    THEN LET w == SetWordLoop(st, dst, 0, WordCount(size), Pattern(value))
         IN IF Remainder(size) > 0
            THEN SetByteLoop(w.st, w.dst32, 0, Remainder(size), value)
            ELSE w.st
    ELSE LibMemset(st, dst, value, size)

\* The remainder left out.
RemainingNone(size) == 0

\* burst_count = size / SF2000_CACHE_LINE_SIZE, remaining_size = size % SF2000_CACHE_LINE_SIZE
BurstCount(size) == size \div SF2000_CACHE_LINE_SIZE
RemainingSize(size) == size % SF2000_CACHE_LINE_SIZE

\* dst32[k] = src32[k] for k = 0 .. 7, the unrolled body of one burst.
RECURSIVE BurstWords(_, _, _, _)
BurstWords(st, dst32, src32, k) ==
    IF k >= 8
    THEN st
    ELSE BurstWords(CopyWord(st, dst32 + 4 * k, src32 + 4 * k), dst32, src32, k + 1)

\* for (burst = 0; burst < burst_count; burst++) { ...; dst32 += 8; src32 += 8; }
RECURSIVE BurstLoop(_, _, _, _, _)
BurstLoop(st, dst32, src32, burst, burst_count) ==
    IF burst >= burst_count
    THEN [st |-> st, dst32 |-> dst32, src32 |-> src32]
    ELSE BurstLoop(BurstWords(st, dst32, src32, 0), dst32 + 32, src32 + 32,
                   burst + 1, burst_count)

\* sf2000_memcpy_burst(dst, src, size) on the memory and log st.
MemcpyBurst(st, dst, src, size) ==
    IF size >= SF2000_CACHE_LINE_SIZE /\ Aligned4(dst) /\ Aligned4(src)
    THEN LET b == BurstLoop(st, dst, src, 0, BurstCount(size))
         IN IF RemainingSize(size) > 0
            THEN MemcpyAligned(b.st, b.dst32, b.src32, RemainingSize(size))
            ELSE b.st
    ELSE MemcpyAligned(st, dst, src, size)

\* The calls: the routine is applied to the arguments and the memory in io.
Entry == [mem |-> io.mem, log |-> <<>>]

AllocatorIdle == UNCHANGED <<pools, heap, raw, held, misuse, phase>>

MemcpyAlignedCall ==
    /\ io.op = "args"
    /\ LET r == MemcpyAligned(Entry, io.dst, io.src, io.n)
       IN io' = [io EXCEPT !.op = "memcpy_aligned", !.mem = r.mem, !.log = r.log]
    /\ AllocatorIdle

MemcpyBurstCall ==
    /\ io.op = "args"
    /\ LET r == MemcpyBurst(Entry, io.dst, io.src, io.n)
       IN io' = [io EXCEPT !.op = "memcpy_burst", !.mem = r.mem, !.log = r.log]
    /\ AllocatorIdle

MemsetAlignedCall ==
    /\ io.op = "args"
    /\ LET r == MemsetAligned(Entry, io.dst, io.value, io.n)
       IN io' = [io EXCEPT !.op = "memset_aligned", !.mem = r.mem, !.log = r.log]
    /\ AllocatorIdle

\* The pool allocator as Init leaves it, untouched by the copy and fill runs.
AllocatorInit ==
    /\ pools = [i \in PoolIds |-> ZeroPool]
    /\ heap = {}
    /\ raw = [i \in PoolIds |-> NULL]
    /\ held = {}
    /\ misuse = 0
    /\ phase = "uninit"

\* Copies of every length up to MaxLen between buffers of every alignment.
CopyArgs ==
    {[op |-> "args", dst |-> DstBase + da, src |-> SrcBase + sa, n |-> n,
      value |-> 0, mem |-> InitialMem, log |-> <<>>] :
        da \in 0 .. 3, sa \in 0 .. 3, n \in 0 .. MaxLen}

InitCopy == AllocatorInit /\ io \in CopyArgs
NextCopy == MemcpyAlignedCall \/ MemcpyBurstCall
SpecCopy == InitCopy /\ [][NextCopy]_vars

\* Fills of every length up to MaxFill with every byte value at every alignment.
FillArgs ==
    {[op |-> "args", dst |-> DstBase + da, src |-> SrcBase, n |-> n,
      value |-> v, mem |-> InitialMem, log |-> <<>>] :
        da \in 0 .. 3, n \in 0 .. MaxFill, v \in 0 .. 255}

InitFill == AllocatorInit /\ io \in FillArgs
NextFill == MemsetAlignedCall
SpecFill == InitFill /\ [][NextFill]_vars

\* Well-behaved use with blocks going round: at most MaxHeldTidy pointers
\* held, requests for the 32-byte pool, for the two blocks of the 4096-byte
\* pool and for the general allocator, and Free of held pointers only.
MaxHeldTidy == 3
TidySizes == {20, 4096, 4097}
NextTidy ==
    \/ \E place \in Placements : PoolsInit({}, place)
    \/ /\ phase = "ready"
       /\ Cardinality(held) < MaxHeldTidy
       /\ \E size \in TidySizes, ok \in BOOLEAN : MallocFast(size, 0, ok, 0)
    \/ /\ phase = "ready"
       /\ \E ptr \in held : FreeFast(ptr, FALSE)

SpecTidy == Init /\ [][NextTidy]_vars

\* A caller that frees, up to MaxInside times, an address inside a block it
\* holds instead of the block's start: one byte behind the start or the
\* block's last byte.
MaxHeldInside == 2
MaxInside == 1
InsideSizes == {20, 4096}
InsideOf(ptr) ==
    LET k == OwnerPool(ptr)
    IN IF k = -1 THEN {} ELSE {ptr + 1, ptr + pools[k].block_size - 1}
InsidePtrs == UNION {InsideOf(ptr) : ptr \in held}

NextInside ==
    \/ \E place \in Placements : PoolsInit({}, place)
    \/ /\ phase = "ready"
       /\ Cardinality(held) < MaxHeldInside
       /\ \E size \in InsideSizes : MallocFast(size, 0, TRUE, 0)
    \/ /\ phase = "ready"
       /\ \E ptr \in held : FreeFast(ptr, FALSE)
    \/ /\ phase = "ready"
       /\ misuse < MaxInside
       /\ \E ptr \in InsidePtrs : FreeFast(ptr, FALSE)

SpecInside == Init /\ [][NextInside]_vars

\* Use before sf2000_memory_pools_init was ever called: the pools are the
\* zeroed static array.  The caller frees what it holds and, up to MaxEarly
\* times, an address no allocation returned.
MaxHeldEarly == 2
MaxEarly == 1
EarlySizes == {0, 20, 4097}
EarlyGaps == {0}
WildPtrs == {8, HeapBase + 4}

NextEarly ==
    \/ /\ phase = "uninit"
       /\ Cardinality(held) < MaxHeldEarly
       /\ \E size \in EarlySizes, gap \in EarlyGaps, ok \in BOOLEAN,
             junk \in JunkValues \cup {Trap} : MallocFast(size, gap, ok, junk)
    \/ /\ phase = "uninit"
       /\ \E ptr \in held \cup {NULL} : FreeFast(ptr, FALSE)
    \/ /\ phase = "uninit"
       /\ misuse < MaxEarly
       /\ \E ptr \in WildPtrs \ held, crash \in BOOLEAN : FreeFast(ptr, crash)

SpecEarly == Init /\ [][NextEarly]_vars

\* ------------------------------------------------ sf2000_rom_load_optimized
SF2000_MAX_ROM_SIZE == 2097152
chunk_size == 8192

Min(a, b) == IF a <= b THEN a ELSE b

\* A file as the C library shows it: whether fopen succeeds, what ftell
\* reports at the end of the file (-1 when it fails), and how many bytes the
\* device delivers before an error cuts the reads short.
FileLengths ==
    {-1, 0, 1, 20, 4064, 4065, 8192, 8193, 20000,
     SF2000_MAX_ROM_SIZE, SF2000_MAX_ROM_SIZE + 1}
CutLengths == {20, 4065, 20000}
CutAfter == {0, 19, 8192, 8200}
Files ==
    {[opens |-> FALSE, length |-> 20, readable |-> 20]}
    \cup {[opens |-> TRUE, length |-> L, readable |-> L] : L \in FileLengths}
    \cup {f \in [opens : {TRUE}, length : CutLengths, readable : CutAfter] :
              f.readable < f.length}

\* The byte of the file at offset o.
FileByte(o) == (37 * o + 11) % 256

\* fread(ptr, 1, n, file) at file position pos: the number of bytes delivered.
Fread(f, pos, n) == Max(0, Min(n, Min(f.length, f.readable) - pos))

\* The length test that also rejects a file of exactly the maximum size.
BadLengthAtMax(file_size) == file_size <= 0 \/ file_size >= SF2000_MAX_ROM_SIZE

\* if (file_size <= 0 || file_size > SF2000_MAX_ROM_SIZE)
BadLength(file_size) == file_size <= 0 \/ file_size > SF2000_MAX_ROM_SIZE

\* sf2000_malloc_fast(file_size + SF2000_CACHE_LINE_SIZE)
BufferRequest(file_size) == file_size + SF2000_CACHE_LINE_SIZE

\* A loop that always asks for a whole chunk.
ToReadChunk(file_size, bytes_read) == chunk_size

\* (file_size - bytes_read < chunk_size) ? (file_size - bytes_read) : chunk_size
ToRead(file_size, bytes_read) ==
    IF file_size - bytes_read < chunk_size THEN file_size - bytes_read ELSE chunk_size

\* One pass of the while loop on the loop state s: the test of
\* bytes_read < file_size, then one fread, recorded as
\* [at: write_ptr, from: file position, want: to_read, got: actually_read].
\* The loop is left with ok when the test fails and without ok on a read that
\* delivers less than asked; a loop that was left stays as it is.
LoopStep(f, s) ==
    IF ~s.running THEN s
    ELSE IF ~(s.bytes_read < f.length)
    THEN [s EXCEPT !.running = FALSE, !.ok = TRUE]
    ELSE LET to_read == ToRead(f.length, s.bytes_read)
             actually_read == Fread(f, s.bytes_read, to_read)
             entry == [at |-> s.write_ptr, from |-> s.bytes_read,
                       want |-> to_read, got |-> actually_read]
         IN IF actually_read # to_read
            THEN [s EXCEPT !.running = FALSE, !.ok = FALSE,
                           !.reads = Append(s.reads, entry)]
            ELSE [s EXCEPT !.bytes_read = s.bytes_read + actually_read,
                           !.write_ptr = s.write_ptr + actually_read,
                           !.reads = Append(s.reads, entry)]

\* n passes in sequence, split in halves to keep the evaluation shallow; the
\* second half is skipped once the loop was left.
RECURSIVE LoopSteps(_, _, _)
LoopSteps(f, s, n) ==
    IF n = 0 THEN s
    ELSE IF n = 1 THEN LoopStep(f, s)
    ELSE LET half == LoopSteps(f, s, n \div 2)
         IN IF half.running THEN LoopSteps(f, half, n - (n \div 2)) ELSE half

\* How many passes of the loop are followed; a loop still running after them
\* is taken not to return.
LoopFuel == 300

\* The while loop from bytes_read = 0 and write_ptr = aligned_buffer.
ReadLoop(f, aligned_buffer) ==
    LoopSteps(f, [running |-> TRUE, ok |-> FALSE, bytes_read |-> 0,
                  write_ptr |-> aligned_buffer, reads |-> <<>>], LoopFuel)

\* The pointer the read-error path hands to sf2000_free_fast, were it the
\* aligned one.
ReleasedAligned(buffer, aligned_buffer) == aligned_buffer

\* sf2000_free_fast(buffer) on the read-error path.
Released(buffer, aligned_buffer) == buffer

\* *size on success, were it the padded size.
LoadedSizePadded(file_size) == file_size + SF2000_CACHE_LINE_SIZE

\* *size = file_size
LoadedSize(file_size) == file_size

\* The read-error path without its fclose.
ReadErrorExitNoClose(ptr) == <<[call |-> "sf2000_free_fast", arg |-> ptr]>>

\* The calls of the read-error path after the failed fread.
ReadErrorExit(ptr) ==
    <<[call |-> "sf2000_free_fast", arg |-> ptr], [call |-> "fclose", arg |-> 0]>>

\* The calls up to the length test, after a successful fopen.
Opening ==
    <<[call |-> "fopen", arg |-> 1], [call |-> "fseek", arg |-> 0],
      [call |-> "ftell", arg |-> 0], [call |-> "fseek", arg |-> 0]>>

FreadCalls(reads) == [j \in DOMAIN reads |-> [call |-> "fread", arg |-> reads[j].want]]

\* The pools and the general allocator's regions after
\* sf2000_malloc_fast(size) returned ret.
PoolsAfterMalloc(size) ==
    LET k == SelectPool(size)
    IN IF k # -1 THEN [pools EXCEPT ![k].free_count = pools[k].free_count - 1]
       ELSE pools

HeapAfterMalloc(size, ret, ok) ==
    IF SelectPool(size) = -1 /\ ok
    THEN heap \cup {[addr |-> ret, size |-> FallbackSize(size)]}
    ELSE heap

\* The pools P after sf2000_free_fast(ptr).  The range test reads only the
\* base, block_size and block_count, which no allocation changes.
PoolsAfterFree(P, ptr) ==
    IF IsNull(ptr) THEN P
    ELSE LET k == OwnerPool(ptr)
         IN IF k # -1 /\ PushAllowed(P[k])
            THEN [P EXCEPT ![k] = Push(P[k], BlockIndex(ptr, P[k]))]
            ELSE P

\* The regions H after sf2000_free_fast(ptr): free() removes the region that
\* starts at the address it is given.
HeapAfterFree(H, ptr) ==
    IF FreeCalls(ptr) = <<>> THEN H ELSE {r \in H : r.addr # FreeCalls(ptr)[1]}

\* free() is given an address that is not a live result of malloc.
FreeUndefined(H, ptr) ==
    FreeCalls(ptr) # <<>> /\ FreeCalls(ptr)[1] \notin {r.addr : r \in H}

\* The record of a call that fails: the value returned, *size, the size asked
\* of sf2000_malloc_fast (-1: no request) and the buffer it gave, the freads,
\* and the library and allocator calls in order.
LoadFailure(f, calls) ==
    [op |-> "rom_load", file |-> f, ret |-> NULL, size |-> 0, request |-> -1,
     buffer |-> NULL, bytes_read |-> 0, reads |-> <<>>, calls |-> calls]

\* UInt8* sf2000_rom_load_optimized(const char* filename, int* size)
\* gap, ok, junk: as for sf2000_malloc_fast.  Besides the record of the call:
\* the pools and regions it leaves, the pointers obtained from
\* sf2000_malloc_fast and those given to sf2000_free_fast, and whether free()
\* was given an address that is no live result of malloc, or the loop was
\* still running after LoopFuel passes.
LoadOutcome(f, gap, ok, junk) ==
    IF ~f.opens
    THEN [io |-> LoadFailure(f, <<[call |-> "fopen", arg |-> 0]>>),
          pools |-> pools, heap |-> heap, got |-> {}, freed |-> {},
          undefined |-> FALSE, hangs |-> FALSE]
    ELSE IF BadLength(f.length)
    THEN [io |-> LoadFailure(f, Append(Opening, [call |-> "fclose", arg |-> 0])),
          pools |-> pools, heap |-> heap, got |-> {}, freed |-> {},
          undefined |-> FALSE, hangs |-> FALSE]
    ELSE
    LET request == BufferRequest(f.length)
        buffer == MallocResult(request, gap, ok, junk)
        P1 == PoolsAfterMalloc(request)
        H1 == HeapAfterMalloc(request, buffer, ok)
        asked == Append(Opening, [call |-> "sf2000_malloc_fast", arg |-> request])
    IN IF buffer = NULL
       THEN [io |-> [LoadFailure(f, Append(asked, [call |-> "fclose", arg |-> 0]))
                        EXCEPT !.request = request],
             pools |-> P1, heap |-> H1, got |-> {}, freed |-> {},
             undefined |-> FALSE, hangs |-> FALSE]
       ELSE
       LET aligned_buffer == AlignUp(buffer)
           loop == ReadLoop(f, aligned_buffer)
           read == asked \o FreadCalls(loop.reads)
       IN IF loop.running
          THEN [io |-> [LoadFailure(f, read)
                           EXCEPT !.op = "rom_load (no return)",
                                  !.request = request, !.buffer = buffer,
                                  !.bytes_read = loop.bytes_read,
                                  !.reads = loop.reads],
                pools |-> P1, heap |-> H1, got |-> {buffer}, freed |-> {},
                undefined |-> FALSE, hangs |-> TRUE]
          ELSE IF ~loop.ok
          THEN LET ptr == Released(buffer, aligned_buffer)
               IN [io |-> [LoadFailure(f, read \o ReadErrorExit(ptr))
                              EXCEPT !.request = request, !.buffer = buffer,
                                     !.bytes_read = loop.bytes_read,
                                     !.reads = loop.reads],
                   pools |-> PoolsAfterFree(P1, ptr),
                   heap |-> HeapAfterFree(H1, ptr),
                   got |-> {buffer}, freed |-> {ptr},
                   undefined |-> FreeUndefined(H1, ptr), hangs |-> FALSE]
          ELSE [io |-> [op |-> "rom_load", file |-> f, ret |-> aligned_buffer,
                        size |-> LoadedSize(f.length), request |-> request,
                        buffer |-> buffer, bytes_read |-> loop.bytes_read,
                        reads |-> loop.reads,
                        calls |-> Append(read, [call |-> "fclose", arg |-> 0])],
                pools |-> P1, heap |-> H1, got |-> {buffer}, freed |-> {},
                undefined |-> FALSE, hangs |-> FALSE]

RomLoad(f, gap, ok, junk, crash) ==
    /\ Callable
    /\ IF f.opens /\ ~BadLength(f.length) /\ Traps(BufferRequest(f.length), junk)
       THEN /\ pools' = PoolsAfterMalloc(BufferRequest(f.length))
            /\ phase' = "crashed"
            /\ UNCHANGED <<heap, held, io>>
       ELSE LET r == LoadOutcome(f, gap, ok, junk)
            IN /\ io' = r.io
               /\ pools' = r.pools
               /\ heap' = r.heap
               /\ held' = (held \cup r.got) \ r.freed
               /\ phase' = IF r.hangs THEN "hung"
                           ELSE IF r.undefined /\ crash THEN "crashed" ELSE phase
    /\ UNCHANGED <<raw, misuse>>

\* The caller of the loader: after sf2000_memory_init it loads files, at most
\* MaxLoads buffers outstanding, and releases the pointer the last load
\* returned with sf2000_free_fast.
MaxLoads == 1
LoadGaps == {0, 8}

\* junk and crash decide what undefined behaviour does; after an Initialize
\* without failed reservations no call of the loader reaches any.
LoadCall ==
    \E f \in Files, gap \in LoadGaps, ok \in BOOLEAN : RomLoad(f, gap, ok, 0, TRUE)

ReleaseLoaded ==
    /\ io.op = "rom_load"
    /\ io.ret # NULL
    /\ io.buffer \in held
    /\ misuse < MaxLoads
    /\ \E crash \in BOOLEAN : FreeFast(io.ret, crash)

NextLoad ==
    \/ phase = "uninit" /\ \E place \in Placements : PoolsInit({}, place)
    \/ phase = "ready" /\ Cardinality(held) < MaxLoads /\ LoadCall
    \/ phase = "ready" /\ ReleaseLoaded

SpecLoad == Init /\ [][NextLoad]_vars

\* ============================================================ properties
\* The span of pool i's backing storage, [base, base + block_size * block_count).
SpanLo(i) == pools[i].pool_memory
SpanHi(i) == pools[i].pool_memory + pools[i].block_size * pools[i].block_count
InSpan(ptr, i) == SpanLo(i) <= ptr /\ ptr < SpanHi(i)

\* The blocks of pool i the caller holds.
HeldFrom(i) == {ptr \in held : InSpan(ptr, i)}

\* Every pool as Initialize leaves it: all blocks free, in physical order.
Fresh ==
    /\ phase = "ready"
    /\ \A i \in PoolIds : pools[i].free_count = pools[i].block_count
    /\ \A i \in PoolIds :
          \A j \in 0 .. (pools[i].block_count - 1) : pools[i].list[j] = j

\* C1: pool conservation - after Initialize, as long as no block is freed
\* while it is free, free_count plus the number of blocks handed out from the
\* pool and not yet freed equals block_count, for every pool.
C1_PoolConservation ==
    (phase = "ready" /\ misuse = 0) =>
        \A i \in PoolIds :
            pools[i].free_count + Cardinality(HeldFrom(i)) = pools[i].block_count

\* C1 witness: two blocks of the 64-byte pool are out and an earlier Free has
\* reordered its free list.
C1_Witness ==
    /\ phase = "ready" /\ misuse = 0
    /\ pools[1].free_count = pools[1].block_count - 2
    /\ Cardinality(HeldFrom(1)) = 2
    /\ pools[1].list[pools[1].block_count - 2] # pools[1].block_count - 2

\* C2: first fit - when sf2000_malloc_fast(size) takes a block from pool k, no
\* pool j < k has block_size_j >= size and free_count_j > 0: a larger pool
\* serves the request only once every smaller sufficient pool is exhausted.
C2_FirstFit ==
    [][\A k \in PoolIds :
          (pools'[k].free_count < pools[k].free_count) =>
             \A size \in LargeSizes :
                MallocFast(size, 0, TRUE, 0) =>
                   \A j \in 0 .. (k - 1) :
                      ~(pools[j].block_size >= size /\ pools[j].free_count > 0)]_vars

\* C2 witness: the 2048-byte pool is exhausted and a 2000-byte request has
\* been served by the 4096-byte pool (no other request size reaches it).
C2_Witness ==
    /\ phase = "ready"
    /\ pools[6].free_count = 0
    /\ Cardinality(HeldFrom(7)) = 1
    /\ Cardinality(HeldFrom(6)) = 4

\* C3: whatever is passed to Free (held pointers, pointers freed before,
\* pointers the allocator never returned), every pool keeps
\* 0 <= free_count <= block_count and a free list of exactly block_count
\* slots; Allocate reads slot free_count - 1 only when free_count > 0 and
\* Free writes slot free_count only when free_count < block_count, so both
\* stay in [0, block_count).
C3_CountInRange ==
    \A i \in PoolIds :
        /\ 0 <= pools[i].free_count
        /\ pools[i].free_count <= pools[i].block_count
        /\ DOMAIN pools[i].list = 0 .. (pools[i].block_count - 1)

\* C3 witness: after a Free of a pointer the caller did not hold the
\* 4096-byte pool is full again and
\* its free list names the same block twice.
C3_Witness ==
    /\ phase = "ready" /\ misuse > 0
    /\ pools[7].free_count = pools[7].block_count
    /\ pools[7].list[0] = pools[7].list[1]

\* The live part of pool i's free list: its first free_count entries.
LiveEntries(i) == {pools[i].list[k] : k \in 0 .. (pools[i].free_count - 1)}

LiveEntriesDistinct ==
    \A i \in PoolIds :
        /\ Cardinality(LiveEntries(i)) = pools[i].free_count
        /\ LiveEntries(i) \subseteq 0 .. (pools[i].block_count - 1)

\* C4 as stated: after Initialize and any Allocate and Free calls on pointers
\* obtained from Allocate, the first free_count entries of each free list are
\* pairwise distinct values in [0, block_count).  A second Free of a pointer
\* obtained from Allocate refutes it.
C4_AsStated == phase = "ready" => LiveEntriesDistinct

\* C4 amended: the same, when every pointer passed to Free was returned by
\* Allocate and has not been freed since.
C4_DistinctEntries == (phase = "ready" /\ misuse = 0) => LiveEntriesDistinct

\* C4 witness: both blocks of the 4096-byte pool were allocated and freed in
\* allocation order, which reverses the free list.
C4_Witness ==
    /\ phase = "ready" /\ misuse = 0
    /\ pools[7].free_count = 2
    /\ pools[7].list[0] = 1 /\ pools[7].list[1] = 0

\* The general allocator's results the caller may hold: its live regions
\* other than the pools' own storage and free lists.
GeneralResults ==
    HeapAddrs \ ({raw[i] : i \in PoolIds} \cup {pools[i].free_list : i \in PoolIds})

\* ptr is the start of a block of pool i whose bytes lie inside pool i's span
\* and inside no other pool's span.
BlockOfOnly(ptr, i) ==
    /\ InSpan(ptr, i)
    /\ (ptr - SpanLo(i)) % pools[i].block_size = 0
    /\ (ptr - SpanLo(i)) \div pools[i].block_size \in 0 .. (pools[i].block_count - 1)
    /\ ptr + pools[i].block_size <= SpanHi(i)
    /\ \A j \in PoolIds \ {i} : ptr + pools[i].block_size <= SpanLo(j) \/ SpanHi(j) <= ptr

\* C5: a pointer sf2000_malloc_fast returned is the general allocator's
\* result (and then in no pool's span) or base + i * block_size of exactly one
\* pool with 0 <= i < block_count, its block inside that pool's span only.
C5_ReturnedPointers ==
    phase = "ready" =>
        \A ptr \in held :
            \/ ptr \in GeneralResults /\ \A i \in PoolIds : ~InSpan(ptr, i)
            \/ /\ ptr \notin GeneralResults
               /\ Cardinality({i \in PoolIds : BlockOfOnly(ptr, i)}) = 1

\* C5 witness: the caller holds a block of the 64-byte pool, a block of the
\* 4096-byte pool and a region of the general allocator at once.
C5_Witness ==
    /\ phase = "ready"
    /\ HeldFrom(1) # {} /\ HeldFrom(7) # {}
    /\ held \cap GeneralResults # {}

\* The bytes Initialize reserved for pool i: [raw, raw + block_size *
\* block_count + 31), a live region of the general allocator.
Reserved(i) ==
    [addr |-> raw[i],
     size |-> pools[i].block_size * pools[i].block_count + SF2000_CACHE_LINE_SIZE - 1]

\* C6: after Initialize the spans of two different pools do not overlap, and
\* each span, its base rounded up to a multiple of 32, lies inside the
\* block_size * block_count + 31 bytes reserved for its pool.
C6_SpansDisjoint ==
    phase = "ready" =>
        /\ \A i, j \in PoolIds :
              i # j => SpanHi(i) <= SpanLo(j) \/ SpanHi(j) <= SpanLo(i)
        /\ \A i \in PoolIds :
              /\ Reserved(i) \in heap
              /\ SpanLo(i) % SF2000_CACHE_LINE_SIZE = 0
              /\ Reserved(i).addr <= SpanLo(i)
              /\ SpanHi(i) <= Reserved(i).addr + Reserved(i).size

\* C6 witness: Initialize has run where one pool's reservation needed the
\* full 31 bytes of padding and another pool's needed none.
C6_Witness ==
    /\ phase = "ready"
    /\ \E i \in PoolIds : SpanLo(i) - raw[i] = SF2000_CACHE_LINE_SIZE - 1
    /\ \E i \in PoolIds : SpanLo(i) = raw[i]

\* C7: the free list is a stack.  When Free(p) of a block of pool k pushes,
\* the block an Allocate served by pool k hands out next is p; and an
\* Allocate served by pool k pops the top entry free_list[free_count - 1] and
\* returns base + index * block_size.
C7_StackOrder ==
    [][\A k \in PoolIds :
          /\ (pools'[k].free_count = pools[k].free_count + 1) =>
                \A ptr \in {q \in held \cup StalePtrs : InSpan(q, k)} :
                   FreeFast(ptr, FALSE) =>
                      \A size \in MisuseSizes :
                         (SelectPool(size))' = k =>
                            (MallocResult(size, 0, TRUE, 0))' = ptr
          /\ (pools'[k].free_count = pools[k].free_count - 1) =>
                /\ held' = held \cup
                      {SpanLo(k) + pools[k].list[pools[k].free_count - 1] * pools[k].block_size}
                /\ pools'[k].list = pools[k].list]_vars

\* C7 witness: in the 32-byte pool the block freed first was handed out
\* again before the older free block below it (the slot above the top still
\* names block 255, which a fresh pool keeps in slot 255).
C7_Witness ==
    /\ phase = "ready"
    /\ pools[0].free_count = 254
    /\ pools[0].list[254] = 255
    /\ Cardinality(HeldFrom(0)) = 2

\* No pool matches a request: it exceeds the largest class, or every pool
\* with block_size >= size has free_count == 0.
NoMatch(size) ==
    \/ size > 4096
    \/ \A i \in PoolIds : pools[i].block_size >= size => pools[i].free_count = 0

\* C8: when no pool matches, sf2000_malloc_fast hands out exactly what the
\* general allocator returns for that size (nothing when it fails) and
\* leaves free_count and the free list of every pool unchanged.
C8_Fallback ==
    /\ [](\A size \in AllocSizes :
             NoMatch(size) =>
                /\ MallocResult(size, 0, TRUE, 0) = MallocAddr(heap, size, 0)
                /\ MallocResult(size, 0, FALSE, 0) = NULL)
    /\ [][\A size \in AllocSizes :
             (NoMatch(size) /\ held \subseteq held' /\ MallocFast(size, 0, TRUE, 0)) =>
                /\ pools' = pools
                /\ LET r == [addr |-> MallocAddr(heap, size, 0), size |-> size]
                   IN /\ heap' = heap \cup {r}
                      /\ held' = held \cup {r.addr}]_vars

\* C8 witness: with the 4096-byte pool exhausted, a 4096-byte request was
\* served by the general allocator.
C8_Witness ==
    /\ phase = "ready"
    /\ pools[7].free_count = 0
    /\ \E r \in heap : r.size = 4096 /\ r.addr \in held /\ r.addr \in GeneralResults

\* Every pool fresh, but for one block of the 64-byte pool handed out.
OneOut ==
    /\ phase = "ready"
    /\ \A i \in PoolIds :
          pools[i].free_count = pools[i].block_count - (IF i = 1 THEN 1 ELSE 0)
    /\ \A i \in PoolIds :
          \A j \in 0 .. (pools[i].block_count - 1) : pools[i].list[j] = j

\* C9: from a freshly initialized allocator, Allocate(size) with
\* 32 < size <= 64 returns a block of the 64-byte pool and decrements only
\* that pool's free_count; Free of the returned pointer restores every pool
\* to its state before the Allocate.
C9_RoundTrip ==
    [][/\ Fresh =>
             \A size \in {n \in AllocSizes : 32 < n /\ n <= 64} :
                MallocFast(size, 0, TRUE, 0) =>
                   /\ pools' = [pools EXCEPT ![1].free_count = @ - 1]
                   /\ \E ptr \in held' \ held : InSpan(ptr, 1)
                   /\ OneOut'
       /\ OneOut =>
             \A ptr \in HeldFrom(1) :
                FreeFast(ptr, FALSE) =>
                   /\ pools' = [pools EXCEPT ![1].free_count = @ + 1]
                   /\ Fresh']_vars

\* C9 witness: one block of the 64-byte pool is out of an otherwise fresh
\* allocator and the caller holds it.
C9_Witness == OneOut /\ Cardinality(HeldFrom(1)) = 1 /\ held = HeldFrom(1)

\* The 32-byte pool is exhausted by 256 allocations, none freed.
Exhausted32 ==
    /\ phase = "ready"
    /\ pools[0].free_count = 0
    /\ Cardinality(HeldFrom(0)) = 256
    /\ held = HeldFrom(0)

\* C10 as stated: with the 32-byte pool exhausted, a further Allocate(20)
\* falls through to the general allocator - the returned pointer lies outside
\* every pool's span and no pool's free_count changes.
C10_AsStated ==
    [][(Exhausted32 /\ MallocFast(20, 0, TRUE, 0)) =>
          /\ \A i \in PoolIds : pools'[i].free_count = pools[i].free_count
          /\ \A ptr \in held' \ held : \A i \in PoolIds : ~InSpan(ptr, i)]_vars

\* C10 amended: with the 32-byte pool exhausted, a further Allocate(20) is
\* served by the 64-byte pool - the returned pointer is that pool's top block,
\* its free_count drops by one, no other pool changes and the general
\* allocator is not called.
C10_NextPoolServes ==
    [][(Exhausted32 /\ MallocFast(20, 0, TRUE, 0)) =>
          /\ pools' = [pools EXCEPT ![1].free_count = @ - 1]
          /\ held' \ held = {SpanLo(1) + (pools[1].block_count - 1) * pools[1].block_size}
          /\ heap' = heap]_vars

\* C10 witness: 256 blocks of the 32-byte pool and, from the 257th request,
\* one block of the 64-byte pool are out.
C10_Witness ==
    /\ phase = "ready"
    /\ pools[0].free_count = 0
    /\ Cardinality(HeldFrom(0)) = 256
    /\ Cardinality(HeldFrom(1)) = 1
    /\ Cardinality(held) = 257

\* C11: sf2000_free_fast(NULL) is a no-op - it makes no call to free(), and
\* a step that is sf2000_free_fast(NULL) changes no pool (free_count, free
\* list), no live region of the general allocator and does not stop the program.
C11_FreeNull ==
    /\ [](FreeCalls(NULL) = <<>>)
    /\ [][\A crash \in BOOLEAN :
             FreeFast(NULL, crash) => UNCHANGED <<pools, heap, phase>>]_vars

\* C11 witness: the caller holds a block of the 64-byte pool and a region of
\* the general allocator, the state sf2000_free_fast(NULL) is called in and
\* returns to without a call to free().
C11_Witness ==
    /\ phase = "ready"
    /\ \E p \in held : InSpan(p, 1)
    /\ \E q \in held : q \in GeneralResults
    /\ IsNull(NULL)
    /\ FreeCalls(NULL) = <<>>

\* The pointers the faulty caller may pass to sf2000_free_fast that can lie in
\* the span of a pool with no block out: the probes, and a held block of a
\* pool filled up by a repeated Free.  (No entry of a full pool's free list
\* lies above free_count, so StalePtrs has no pointer into it.)
FreeArgs == held \cup Probes

\* Pool i has every block on its free list.
Full(i) == pools[i].block_count > 0 /\ pools[i].free_count = pools[i].block_count

\* C12: Free of a pointer inside the span of a pool that already has
\* free_count == block_count is dropped - that pool's free_count and free
\* list and every other pool are unchanged, free() is not called, the
\* general allocator's regions are untouched and the program goes on.
C12_DroppedWhenFull ==
    [][\A ptr \in FreeArgs :
          (\E i \in PoolIds : InSpan(ptr, i) /\ Full(i)) =>
             /\ FreeCalls(ptr) = <<>>
             /\ \A crash \in BOOLEAN :
                   FreeFast(ptr, crash) =>
                      /\ pools' = pools
                      /\ heap' = heap
                      /\ phase' = phase]_vars

\* C12 witness: a Free the caller had no right to make has been made, every
\* pool is as Initialize left it and nothing is held - the Free hit a full pool.
C12_Witness ==
    /\ Fresh
    /\ misuse >= 1
    /\ held = {}
    /\ \E ptr \in Probes : \E i \in PoolIds : InSpan(ptr, i) /\ Full(i)

\* Every pointer the faulty caller may pass to sf2000_free_fast.
AnyFreeArgs == held \cup StalePtrs \cup Probes

\* ptr lies in the span of some pool.
InSomeSpan(ptr) == \E i \in PoolIds : InSpan(ptr, i)

\* C13: Free of a non-null pointer in no pool's span calls free() exactly
\* once, with that pointer, and changes no pool (a live region of the general
\* allocator it names is released); Free of a pointer in a pool's span makes
\* no call to free(), so no region is released and the program goes on.
C13_GeneralDeallocator ==
    /\ [](\A ptr \in AnyFreeArgs :
             ptr # NULL =>
                FreeCalls(ptr) = IF InSomeSpan(ptr) THEN <<>> ELSE <<ptr>>)
    /\ [][\A ptr \in AnyFreeArgs, crash \in BOOLEAN :
             (ptr # NULL /\ FreeFast(ptr, crash)) =>
                IF InSomeSpan(ptr)
                THEN heap' = heap /\ phase' = phase
                ELSE /\ pools' = pools
                     /\ heap' = {r \in heap : r.addr # ptr}
                     /\ (ptr \in HeapAddrs => phase' = phase)]_vars

\* C13 witness: free() was handed an address malloc never returned - the
\* only way the program stops - by a Free of a pointer in no pool's span
\* that the caller did not hold.
C13_Witness ==
    /\ phase = "crashed"
    /\ misuse = 1
    /\ \E ptr \in Probes : ~InSomeSpan(ptr) /\ ptr \notin HeapAddrs

\* The pool set a successful Initialize is to leave.
InitPost ==
    /\ DOMAIN pools = 0 .. 7
    /\ \A i \in DOMAIN pools :
          /\ pools[i].block_size = <<32, 64, 128, 256, 512, 1024, 2048, 4096>>[i + 1]
          /\ pools[i].block_count = <<256, 128, 64, 32, 16, 8, 4, 2>>[i + 1]
          /\ pools[i].free_count = pools[i].block_count
          /\ pools[i].free_list # NULL
          /\ DOMAIN pools[i].list = 0 .. (pools[i].block_count - 1)
          /\ \A j \in 0 .. (pools[i].block_count - 1) : pools[i].list[j] = j
          /\ pools[i].pool_memory # NULL
          /\ pools[i].pool_memory % 32 = 0

\* C14: a successful Initialize leaves exactly 8 pools with block sizes 32,
\* 64, ..., 4096 and block counts 256, 128, ..., 2, each with free_count ==
\* block_count, free_list[j] == j for every j below block_count, and a base
\* address that is a multiple of 32.
C14_InitialPools ==
    [][(phase = "uninit" /\ phase' = "ready") => InitPost']_vars

\* C14 witness: Initialize has run, nothing was allocated yet, and the general
\* allocator placed some pool's storage off a cache line, so the base was
\* moved up to the next multiple of 32.
C14_Witness ==
    /\ phase = "ready"
    /\ held = {}
    /\ InitPost
    /\ \E i \in PoolIds : raw[i] % 32 # 0 /\ pools[i].pool_memory > raw[i]
    /\ \E i \in PoolIds : raw[i] = pools[i].pool_memory

\* The reservation of pool i's backing storage failed in Initialize: malloc
\* returned no address for it.
Failed(i) == phase # "uninit" /\ raw[i] = NULL

\* C15, as the claim states it: after an Initialize in which the reservation
\* of a pool failed, that pool's base stays null, no Allocate selects it, and
\* no Allocate or Free reads or writes through a null free list.
C15_AsStated ==
    phase = "ready" =>
       /\ \A i \in PoolIds :
             Failed(i) =>
                /\ pools[i].pool_memory = NULL
                /\ \A size \in LifeSizes : SelectPool(size) # i
       /\ \A size \in LifeSizes : ~NullRead(size)
       /\ \A ptr \in held : ~NullWrite(ptr)

\* The postcondition the claim gives Cleanup: null base and free list, and no
\* pool Allocate can select.
CleanupPost ==
    /\ \A i \in PoolIds :
          /\ pools[i].pool_memory = NULL
          /\ pools[i].free_list = NULL
          /\ ~(pools[i].free_count > 0 /\ pools[i].block_size # 0)
    /\ \A size \in LifeSizes : SelectPool(size) = -1

\* C16, as the claim states it: Cleanup completes, also after failed
\* reservations, and leaves every pool with a null base and a null free list
\* and no pool that Allocate can select.
C16_AsStated ==
    [][\A crash \in BOOLEAN :
          Cleanup(crash) => (phase' = "cleaned" /\ CleanupPost')]_vars

\* A step that is the call of routine `name` on the arguments in io.
Called(name) == io.op = "args" /\ io'.op = name

\* The plain byte-wise copy: dst[k] = src[k] for k = 0, 1, ..., n - 1.
RECURSIVE NaiveCopy(_, _, _, _, _)
NaiveCopy(m, dst, src, k, n) ==
    IF k >= n THEN m
    ELSE NaiveCopy([m EXCEPT ![dst + k] = m[src + k]], dst, src, k + 1, n)

\* C17: for every byte count up to MaxLen and every alignment 0..3 of source
\* and destination, sf2000_memcpy_aligned leaves dst[0..n) byte-identical to
\* src[0..n), the memory being what a plain byte-wise copy leaves, and writes
\* no byte outside dst[0..n) - in particular none at or beyond dst + n.
C17_CopyCorrect ==
    [][Called("memcpy_aligned") =>
          /\ \A k \in 0 .. (io.n - 1) : io'.mem[io.dst + k] = io.mem[io.src + k]
          /\ \A a \in Addrs : (a < io.dst \/ a >= io.dst + io.n) => io'.mem[a] = io.mem[a]
          /\ io'.mem = NaiveCopy(io.mem, io.dst, io.src, 0, io.n)]_vars

\* C17 witness: 7 bytes were copied between word-aligned buffers - one word
\* and three single bytes - and the destination now holds the source's bytes
\* while the byte behind it kept its value.
C17_Witness ==
    /\ io.op = "memcpy_aligned"
    /\ io.n = 7
    /\ Aligned4(io.dst) /\ Aligned4(io.src)
    /\ \A k \in 0 .. 6 : io.mem[io.dst + k] = InitialMem[io.src + k]
    /\ io.mem[io.dst + 7] = InitialMem[io.dst + 7]
    /\ io.mem[io.dst + 7] # InitialMem[io.src + 7]

\* C18: for every byte value v in 0..255, every byte count up to MaxFill and
\* every destination alignment 0..3, sf2000_memset_aligned leaves every byte
\* of dst[0..n) equal to v and writes no byte outside dst[0..n); the 32-bit
\* pattern of the aligned path is v in all four bytes, v * 0x01010101 modulo
\* 2^32, that is v * 0x0101 in either 16-bit half (for the value of every
\* call, and the calls range over all 256 values).
C18_FillCorrect ==
    /\ [](io.op = "args" =>
             Pattern(io.value) = [lo |-> io.value * 257, hi |-> io.value * 257])
    /\ [][Called("memset_aligned") =>
             /\ \A k \in 0 .. (io.n - 1) : io'.mem[io.dst + k] = io.value
             /\ \A a \in Addrs :
                   (a < io.dst \/ a >= io.dst + io.n) => io'.mem[a] = io.mem[a]]_vars

\* C18 witness: 11 bytes at a word-aligned destination were filled with 200,
\* a value with the top bit set - two pattern words and three single bytes -
\* and the byte behind them kept its value.
C18_Witness ==
    /\ io.op = "memset_aligned"
    /\ io.n = 11
    /\ io.value = 200
    /\ Aligned4(io.dst)
    /\ Len(io.log) = 5
    /\ \A k \in 0 .. 10 : io.mem[io.dst + k] = 200
    /\ io.mem[io.dst + 11] = InitialMem[io.dst + 11]
    /\ io.mem[io.dst + 11] # 200

\* C19: burst equivalence - for every byte count up to MaxLen (below 32,
\* 32 and 64, and 32k + r with 0 < r < 32) and every alignment of source and
\* destination, sf2000_memcpy_burst leaves the memory exactly as
\* sf2000_memcpy_aligned leaves it for the same arguments.
C19_BurstEquivalence ==
    [][Called("memcpy_burst") =>
          io'.mem = MemcpyAligned(Entry, io.dst, io.src, io.n).mem]_vars

\* C19 witness: 38 bytes went between word-aligned buffers as one burst of
\* eight words, one more word and two single bytes, and the destination holds
\* the source's bytes.
C19_Witness ==
    /\ io.op = "memcpy_burst"
    /\ io.n = 38
    /\ Aligned4(io.dst) /\ Aligned4(io.src)
    /\ Len(io.log) = 11
    /\ io.log[8].kind = "word" /\ io.log[8].dst = io.dst + 28
    /\ io.log[11].kind = "byte" /\ io.log[11].dst = io.dst + 37
    /\ \A k \in 0 .. 37 : io.mem[io.dst + k] = InitialMem[io.src + k]

\* The transfers the aligned path is to make for n bytes: n div 4 words at
\* offsets 0, 4, ..., then n mod 4 single bytes from offset 4 * (n div 4) on.
ExpectedTransfers(dst, src, n) ==
    [j \in 1 .. ((n \div 4) + (n % 4)) |->
        IF j <= n \div 4
        THEN [kind |-> "word", dst |-> dst + 4 * (j - 1), src |-> src + 4 * (j - 1)]
        ELSE [kind |-> "byte", dst |-> dst + 4 * (n \div 4) + (j - 1 - (n \div 4)),
                               src |-> src + 4 * (n \div 4) + (j - 1 - (n \div 4))]]

\* C20: with both pointers 4-byte aligned, sf2000_memcpy_aligned of n bytes
\* makes exactly floor(n / 4) word transfers and then exactly n mod 4
\* single-byte transfers, the byte transfers starting at offset
\* 4 * floor(n / 4); n = 10 gives 2 word copies and 2 byte copies.
C20_TransferCounts ==
    [][(Called("memcpy_aligned") /\ Aligned4(io.dst) /\ Aligned4(io.src)) =>
          /\ io'.log = ExpectedTransfers(io.dst, io.src, io.n)
          /\ Cardinality({j \in DOMAIN io'.log : io'.log[j].kind = "word"}) = io.n \div 4
          /\ Cardinality({j \in DOMAIN io'.log : io'.log[j].kind = "byte"}) = io.n % 4
          /\ (io.n = 10 =>
                 /\ Len(io'.log) = 4
                 /\ io'.log[1].kind = "word" /\ io'.log[2].kind = "word"
                 /\ io'.log[3].kind = "byte" /\ io'.log[4].kind = "byte"
                 /\ io'.log[3].dst = io.dst + 8)]_vars

\* C20 witness: the copy of 10 bytes between word-aligned buffers has made
\* two word transfers and then two byte transfers, the first byte at offset 8.
C20_Witness ==
    /\ io.op = "memcpy_aligned"
    /\ io.n = 10
    /\ Aligned4(io.dst) /\ Aligned4(io.src)
    /\ Len(io.log) = 4
    /\ io.log[2].kind = "word"
    /\ io.log[3].kind = "byte" /\ io.log[3].dst = io.dst + 8

\* ----------------------------------------------------------- the loader
\* A step of NextLoad that is a call of the loader: Initialize starts from
\* phase "uninit", and a call of sf2000_free_fast takes its pointer out of
\* held or counts a misuse.
LoadStep ==
    /\ phase = "ready"
    /\ misuse' = misuse
    /\ held \subseteq held'
    /\ io'.op = "rom_load"

\* How often the call recorded in rec called `name`.
CallCount(rec, name) ==
    Cardinality({j \in DOMAIN rec.calls : rec.calls[j].call = name})

\* The file cannot be opened, or its length is <= 0 or above 2 MiB.
Rejected(f) == ~f.opens \/ f.length <= 0 \/ f.length > 2097152

\* C21: a Load of a file that cannot be opened, or whose length is <= 0 or
\* above 2 MiB, returns a null buffer and size 0, asks the allocator for no
\* memory and leaves every pool and the general allocator as they were; a
\* file of exactly 2097152 bytes passes the length test and memory is
\* requested for it.
C21_RejectedLoads ==
    [][LoadStep =>
         /\ Rejected(io'.file) =>
               /\ io'.ret = NULL /\ io'.size = 0
               /\ io'.request = -1 /\ io'.buffer = NULL
               /\ CallCount(io', "sf2000_malloc_fast") = 0
               /\ CallCount(io', "sf2000_free_fast") = 0
               /\ pools' = pools /\ heap' = heap /\ held' = held
         /\ (io'.file.opens /\ io'.file.length = 2097152) =>
               /\ io'.request = 2097152 + 32
               /\ CallCount(io', "sf2000_malloc_fast") = 1]_vars

\* A file one byte above 2 MiB was opened and rejected without a request.
C21_Witness ==
    /\ io.op = "rom_load"
    /\ io.file.opens /\ io.file.length = 2097153
    /\ io.ret = NULL /\ io.size = 0 /\ io.request = -1
    /\ phase = "ready"

\* The call recorded in rec ended on a read that delivered less than asked.
ShortRead(rec) ==
    /\ rec.op = "rom_load"
    /\ rec.reads # <<>>
    /\ rec.reads[Len(rec.reads)].got # rec.reads[Len(rec.reads)].want

\* The arguments of the calls of sf2000_free_fast recorded in rec.
FreedBy(rec) ==
    {rec.calls[j].arg : j \in {n \in DOMAIN rec.calls : rec.calls[n].call = "sf2000_free_fast"}}

\* C22: a Load that meets a short chunk read gives the buffer it obtained
\* back with one call of Free on the pointer the allocator returned (not the
\* aligned one), returns null with size 0, and leaves every pool's
\* free_count, the pools and the general allocator's regions as they were
\* before the Load.
C22_NoLeakOnShortRead ==
    [][(LoadStep /\ ShortRead(io')) =>
         /\ io'.ret = NULL /\ io'.size = 0
         /\ io'.buffer # NULL
         /\ CallCount(io', "sf2000_free_fast") = 1
         /\ FreedBy(io') = {io'.buffer}
         /\ \A i \in PoolIds : pools'[i].free_count = pools[i].free_count
         /\ pools' = pools /\ heap' = heap /\ held' = held
         /\ phase' = phase]_vars

\* A short read hit a buffer of the general allocator whose aligned pointer
\* differs from the pointer obtained.
C22_Witness ==
    /\ ShortRead(io)
    /\ SelectPool(io.request) = -1
    /\ AlignUp(io.buffer) # io.buffer
    /\ io.buffer \notin HeapAddrs
    /\ Len(io.reads) > 1

\* The call recorded in rec returned a buffer.
Loaded(rec) == rec.op = "rom_load" /\ rec.ret # NULL

\* The byte at address a after the freads of rec: each fread stores the bytes
\* it got from its file position on at its write pointer, a later one over
\* an earlier one; -1 where no fread stored anything.
LoadedByte(rec, a) ==
    LET over == {j \in DOMAIN rec.reads :
                    rec.reads[j].at <= a /\ a < rec.reads[j].at + rec.reads[j].got}
    IN IF over = {} THEN -1
       ELSE LET j == CHOOSE n \in over : \A k \in over : k <= n
            IN FileByte(rec.reads[j].from + (a - rec.reads[j].at))

\* Offsets of a file of length L at which the bytes are compared: the ends,
\* the middle and both sides of every chunk boundary.
SampleOffsets(L) ==
    {o \in {0, L \div 2, L - 1}
           \cup UNION {{c * chunk_size - 1, c * chunk_size} : c \in 1 .. (L \div chunk_size)} :
        0 <= o /\ o < L}

\* C23: for a file of length L, 0 < L <= 2 MiB, that is read to its end into
\* a buffer the allocator gave, Load returns size L (not L + 32) and a
\* pointer that is a multiple of 32; [ptr, ptr + L) lies inside the L + 32
\* bytes requested, which start at the pointer obtained, and holds the
\* file's bytes in order.
C23_LoadedBuffer ==
    (/\ io.op = "rom_load"
     /\ io.file.opens /\ 0 < io.file.length /\ io.file.length <= 2097152
     /\ io.file.readable >= io.file.length
     /\ io.buffer # NULL)
    => /\ Loaded(io)
       /\ io.size = io.file.length
       /\ io.ret % 32 = 0
       /\ io.request = io.file.length + 32
       /\ io.buffer <= io.ret
       /\ io.ret + io.file.length <= io.buffer + io.request
       /\ (io.buffer \in held /\ OwnerPool(io.buffer) = -1)
             => [addr |-> io.buffer, size |-> io.request] \in heap
       /\ (io.buffer \in held /\ OwnerPool(io.buffer) # -1)
             => /\ io.request <= pools[OwnerPool(io.buffer)].block_size
                /\ BlockAddr(pools[OwnerPool(io.buffer)],
                             BlockIndex(io.buffer, pools[OwnerPool(io.buffer)])) = io.buffer
       /\ \A j \in DOMAIN io.reads :
             /\ io.reads[j].at = io.ret + io.reads[j].from
             /\ io.reads[j].got = io.reads[j].want
             /\ io.reads[j].from = (j - 1) * 8192
       /\ io.bytes_read = io.file.length
       /\ \A o \in SampleOffsets(io.file.length) :
             LoadedByte(io, io.ret + o) = FileByte(o)

\* A file of three chunks, the last one partial, was loaded into a buffer
\* that the alignment moved by 24 bytes.
C23_Witness ==
    /\ Loaded(io)
    /\ io.file.length = 20000
    /\ Len(io.reads) = 3
    /\ io.ret = io.buffer + 24
    /\ io.size = 20000

\* C25: a Load whose fopen succeeded closes the file exactly once, as its
\* last call, whichever way it returns (bad length, no memory, short read,
\* success); a Load whose fopen failed calls fclose not at all.
C25_ClosedOnce ==
    io.op = "rom_load" =>
        /\ io.calls[1].call = "fopen"
        /\ CallCount(io, "fopen") = 1
        /\ io.file.opens =>
              /\ CallCount(io, "fclose") = 1
              /\ io.calls[Len(io.calls)].call = "fclose"
        /\ ~io.file.opens =>
              /\ CallCount(io, "fclose") = 0
              /\ Len(io.calls) = 1

\* The allocator had no memory for an opened file of good length, and the
\* call closed the file before it returned.
C25_Witness ==
    /\ io.op = "rom_load"
    /\ io.file.opens /\ ~Rejected(io.file)
    /\ io.request # -1 /\ io.buffer = NULL /\ io.ret = NULL
    /\ CallCount(io, "fclose") = 1

\* C30: the read loop ends.  Every pass asks for min(8192, L - bytes_read)
\* bytes at file position bytes_read, which grows with every full read and
\* never passes L; after at most ceil(L / 8192) reads the loop is left, with
\* bytes_read = L or on a short read.
C30_LoopTerminates ==
    /\ phase # "hung"
    /\ (io.op = "rom_load" /\ io.buffer # NULL) =>
          LET L == io.file.length
              n == Len(io.reads)
          IN /\ n <= (L + 8191) \div 8192
             /\ n >= 1
             /\ io.reads[1].from = 0
             /\ \A j \in 1 .. n :
                   /\ io.reads[j].want = Min(8192, L - io.reads[j].from)
                   /\ io.reads[j].want > 0
                   /\ io.reads[j].from + io.reads[j].got <= L
                   /\ j < n => /\ io.reads[j].got = io.reads[j].want
                               /\ io.reads[j + 1].from = io.reads[j].from + io.reads[j].got
                               /\ io.reads[j + 1].from > io.reads[j].from
             /\ io.bytes_read <= L
             /\ \/ io.bytes_read = L /\ Loaded(io)
                \/ ShortRead(io) /\ io.ret = NULL

\* The loop ran its full 256 passes over a file of 2 MiB.
C30_Witness ==
    /\ Loaded(io)
    /\ Len(io.reads) = 256
    /\ io.bytes_read = 2097152
    /\ io.reads[256].want = 8192

\* A step of NextLoad in which the pointer the last Load returned is given
\* to sf2000_free_fast.
ReleaseStep ==
    /\ phase = "ready"
    /\ Loaded(io)
    /\ io.buffer \in held
    /\ io' = io
    /\ held' \subseteq held
    /\ held' # held \/ misuse' # misuse

\* C24: sf2000_free_fast of the pointer a Load returned releases exactly the
\* allocation of that Load: its block index is pushed back when the buffer
\* came from a pool, and the general deallocator is given the address the
\* general allocator returned when it came from there.
C24_AsStated ==
    [][ReleaseStep =>
         LET k == OwnerPool(io.buffer)
         IN IF k # -1
            THEN /\ pools'[k].free_count = pools[k].free_count + 1
                 /\ pools'[k].list[pools[k].free_count] = BlockIndex(io.buffer, pools[k])
                 /\ heap' = heap
            ELSE /\ FreeCalls(io.ret) = <<io.buffer>>
                 /\ io.buffer \in HeapAddrs
                 /\ heap' = {r \in heap : r.addr # io.buffer}
                 /\ pools' = pools
                 /\ phase' = phase]_vars

\* A step in which sf2000_malloc_fast took a block of pool k.
TookFrom(k) == phase = "ready" /\ pools'[k].free_count = pools[k].free_count - 1

\* C26: when every pointer given to Free was returned by Allocate and not
\* freed since, the pool block an Allocate returns is held by no earlier
\* allocation: it is a new pointer, the start of a block of the matched
\* pool that overlaps no held block; and no live entry of a free list names
\* a held block.
C26_NoDoubleHandOut ==
    /\ [](phase = "ready" =>
            \A i \in PoolIds : \A ptr \in HeldFrom(i) :
                /\ (ptr - SpanLo(i)) % pools[i].block_size = 0
                /\ ((ptr - SpanLo(i)) \div pools[i].block_size) \notin LiveEntries(i))
    /\ [][\A k \in PoolIds :
            TookFrom(k) =>
               \E ptr \in held' \ held :
                  /\ held' = held \cup {ptr}
                  /\ InSpan(ptr, k)
                  /\ \A q \in HeldFrom(k) :
                        ptr + pools[k].block_size <= q \/ q + pools[k].block_size <= ptr]_vars

\* Both blocks of the 4096-byte pool are held after having been freed and
\* handed out again, next to a held block of the 32-byte pool.
C26_Witness ==
    /\ phase = "ready"
    /\ Cardinality(HeldFrom(7)) = 2
    /\ pools[7].list # FreeListInit(2)
    /\ HeldFrom(0) # {}

\* ptr lies strictly inside block i of pool k.
StrictlyInside(ptr, k, i) ==
    /\ SpanLo(k) + i * pools[k].block_size < ptr
    /\ ptr < SpanLo(k) + (i + 1) * pools[k].block_size

\* C27: Free of an address strictly inside block i of a pool does what Free
\* of the block's start does: index i goes on that pool's free list and
\* free_count grows by one (nothing changes when the pool is already full),
\* no other pool changes and the general deallocator is not called.
C27_InteriorFree ==
    [][phase = "ready" =>
         \A ptr \in InsidePtrs :
            FreeFast(ptr, FALSE) =>
               \E k \in PoolIds : \E i \in 0 .. (pools[k].block_count - 1) :
                  /\ StrictlyInside(ptr, k, i)
                  /\ FreeCalls(ptr) = <<>>
                  /\ heap' = heap
                  /\ \A j \in PoolIds \ {k} : pools'[j] = pools[j]
                  /\ IF pools[k].free_count < pools[k].block_count
                     THEN /\ pools'[k].free_count = pools[k].free_count + 1
                          /\ pools'[k].list =
                                [pools[k].list EXCEPT ![pools[k].free_count] = i]
                     ELSE pools'[k] = pools[k]]_vars

\* An address inside the held second block of the 4096-byte pool was freed:
\* the block's index is back on the free list while the caller still holds
\* the block.
C27_Witness ==
    /\ phase = "ready"
    /\ misuse = 1
    /\ \E ptr \in HeldFrom(7) :
          /\ ptr = SpanLo(7) + 4096
          /\ pools[7].free_count = 2
          /\ pools[7].list[1] = 1

\* C28: for every pool whose reservation succeeded, the address Cleanup
\* gives to the general deallocator for the backing storage is the address
\* the general allocator returned at Initialize, and Cleanup releases that
\* reservation and the one of the free list.
C28_AsStated ==
    [][\A crash \in BOOLEAN :
          Cleanup(crash) =>
             \A i \in PoolIds :
                raw[i] # NULL =>
                   /\ pools[i].pool_memory = raw[i]
                   /\ raw[i] \in HeapAddrs /\ raw[i] \notin HeapAddrs'
                   /\ pools[i].free_list \notin HeapAddrs']_vars

\* C29: before Initialize was ever called every pool field is zero, and
\* sf2000_malloc_fast(size) does what the general allocator does for every
\* size (the region malloc(size) returns, or NULL when it fails) while
\* sf2000_free_fast(ptr) for a non-null ptr does what free(ptr) does; no
\* call reads or writes through a null free list and none changes a pool.
C29_BeforeInitialize ==
    /\ [](pools = [i \in PoolIds |-> ZeroPool])
    /\ [][phase = "uninit" =>
            /\ \A size \in EarlySizes, gap \in EarlyGaps, ok \in BOOLEAN,
                  junk \in JunkValues \cup {Trap} :
                  MallocFast(size, gap, ok, junk) =>
                     /\ pools' = pools /\ phase' = phase
                     /\ IF ok
                        THEN \E a \in held' :
                                /\ a = MallocAddr(heap, size, gap)
                                /\ heap' = heap \cup {[addr |-> a, size |-> size]}
                                /\ held' = held \cup {a}
                        ELSE heap' = heap /\ held' = held
            /\ \A ptr \in (held \cup WildPtrs), crash \in BOOLEAN :
                  FreeFast(ptr, crash) =>
                     /\ pools' = pools
                     /\ FreeCalls(ptr) = <<ptr>>
                     /\ IF ptr \in HeapAddrs
                        THEN heap' = {r \in heap : r.addr # ptr} /\ phase' = phase
                        ELSE heap' = heap /\ phase' \in {phase, "crashed"}]_vars

\* Before Initialize the caller holds a 20-byte region of the general
\* allocator above a 4097-byte one and has freed an address that no
\* allocation returned.
C29_Witness ==
    /\ phase = "uninit"
    /\ \E r, s \in heap : r.size = 20 /\ s.size = 4097 /\ r.addr > s.addr
    /\ {r.addr : r \in heap} = held
    /\ Cardinality(held) = 2
    /\ misuse = 1
====
